---- MODULE Spec2Model ----
(***************************************************************************)
(* A model of the birthday widget (Birthday.js, kept as                    *)
(* src/unnamed/part_001) and of the countdown timers of Events2.js and     *)
(* Utils.js: the TTL cache around fetch (cachedFetch), the cache key, the  *)
(* merge of the official and the custom dataset and the index built from   *)
(* it in fetchBirthdays, the runs and retries of initBirthdayAndClock, the *)
(* countdown label and the interval timers that write it, the expiry       *)
(* filter of the events, and the clock script (Clocks.js, part_000).       *)
(*                                                                         *)
(* The specifications share the variables; each leaves the variables of    *)
(* the others at rest:                                                     *)
(*   SpecCache     cachedFetch calls interleaved at their await points,    *)
(*                 with CONFIG.CACHE.ENABLED as the source sets it (true); *)
(*   SpecCacheCfg  the same with CONFIG.CACHE.ENABLED either way;          *)
(*   SpecKey       the cache key as a pure function of (url, options);     *)
(*   SpecMerge     the merge loop of fetchBirthdays over a heap of record  *)
(*                 objects;                                                *)
(*   SpecRun       the runs of initBirthdayAndClock with their two         *)
(*                 cachedFetch calls, the failure handler and its retry;   *)
(*   SpecRunFair   the same, with the retry timeout firing;                *)
(*   SpecIndex     the reduce of fetchBirthdays over the unified records;  *)
(*   SpecDuration  formatTimeRemaining and formatDuration;                 *)
(*   SpecLabel     getTimerDisplayText and calculateTimeLeft;              *)
(*   SpecExpiry    hasExpired and formatDate on one event, with the label  *)
(*                 computed from the formatted times;                      *)
(*   SpecTimers    the interval timers of initializeEventTimer and         *)
(*                 createCountdownTimer, up to the unload of the page;     *)
(*   SpecCleanup   cleanupTimer called twice with one handle;              *)
(*   SpecClock     initializeClockDisplay, its retries, startClockUpdates  *)
(*                 and the clock interval.                                 *)
(***************************************************************************)
EXTENDS Integers, Sequences, FiniteSets, TLC

VARIABLES
    enabled,        \* CONFIG.CACHE.ENABLED
    now,            \* Date.now(), in milliseconds
    ticks,          \* how many times the clock has advanced (bounded)
    dataCache,      \* the Map dataCache: cacheKey -> [timestamp, data]
    calls,          \* the cachedFetch invocations, by order of invocation
    started,        \* how many cachedFetch invocations have begun
    netFetches,     \* how many times fetch(url, options) has been called
    unloaded,       \* the window's unload handler (cleanup) has run
    reqA, reqB,     \* SpecKey: two requests
    keyA, keyB,     \* SpecKey: their cache keys
    kpc,            \* SpecKey: "input" | "keyed"
    heap,           \* SpecMerge: object reference -> the object's fields
    nextRef,        \* SpecMerge: the next unused object reference
    officialData,   \* SpecMerge: the official payload, key -> reference
    customData,     \* SpecMerge: the custom payload, a list of records
    processedData,  \* SpecMerge: the working set, key -> reference
    idx,            \* SpecMerge: position of the for-of loop in customData
    warned,         \* SpecMerge: how many times console.warn has been called
    mpc,            \* SpecMerge: "fetched" | "merging" | "merged"
    runs,           \* SpecRun: the invocations of initBirthdayAndClock
    containers,     \* SpecRun: the birthday containers created so far
    timers,         \* SpecRun: the pending setTimeout callbacks
    students,       \* SpecIndex: Object.values(processedData)
    acc,            \* SpecIndex: the accumulator of the reduce
    ipos,           \* SpecIndex: the position of the reduce in students
    ipc,            \* SpecIndex: "reducing" | "returned" | "threw"
    args,           \* SpecLabel, SpecDuration: the arguments of the functions
    results,        \* SpecLabel, SpecDuration: what the functions returned
    fpc,            \* SpecLabel, SpecDuration: "called" | "returned"
    elements,       \* SpecTimers: the elements of the document, id -> textContent
    intervals,      \* SpecTimers: the intervals setInterval has created, by handle
    timerIds,       \* SpecTimers: the tracking array the caller passes
    timeouts,       \* SpecTimers: the pending timeouts of initializeEventTimer
    listeners,      \* SpecTimers: the unload listeners, by the handle they clean up
    globalTimerIds, \* SpecTimers: does the page define a global timerIds
    clockState      \* SpecClock: the state of the clock script

cacheVars == <<enabled, now, ticks, dataCache, calls, started, netFetches, unloaded>>
keyVars   == <<reqA, reqB, keyA, keyB, kpc>>
mergeVars == <<heap, nextRef, officialData, customData, processedData, idx,
               warned, mpc>>
runVars   == <<runs, containers, timers>>
indexVars == <<students, acc, ipos, ipc>>
funcVars  == <<args, results, fpc>>
timerVars == <<elements, intervals, timerIds, timeouts, listeners, globalTimerIds>>
clockVars == <<clockState>>
vars      == <<cacheVars, keyVars, mergeVars, runVars, indexVars, funcVars, timerVars,
               clockVars>>

\* what the actions of one component leave alone
nonCacheVars == <<keyVars, mergeVars, runVars, indexVars, funcVars, timerVars,
                 clockVars>>
nonKeyVars == <<cacheVars, mergeVars, runVars, indexVars, funcVars, timerVars,
                 clockVars>>
nonMergeVars == <<cacheVars, keyVars, runVars, indexVars, funcVars, timerVars,
                 clockVars>>
nonRunVars == <<keyVars, mergeVars, indexVars, funcVars, timerVars,
                 clockVars>>
nonIndexVars == <<cacheVars, keyVars, mergeVars, runVars, funcVars, timerVars,
                 clockVars>>
nonFuncVars == <<cacheVars, keyVars, mergeVars, runVars, indexVars, timerVars,
                 clockVars>>
\* the variables of the cache but the clock, which the timers read
cacheVarsButNow == <<enabled, ticks, dataCache, calls, started, netFetches, unloaded>>
\* the timers read the clock and end with the page
cacheVarsOfNoTimer == <<enabled, ticks, dataCache, calls, started, netFetches>>
nonTimerVars == <<cacheVarsOfNoTimer, keyVars, mergeVars, runVars, indexVars, funcVars,
                 clockVars>>
\* for the functions of the timers, called on their own
nonTimerFuncVars == <<cacheVarsOfNoTimer, keyVars, mergeVars, runVars, indexVars,
                     clockVars>>
\* the clock script sets timeouts and intervals and ends with the page
nonClockVars == <<cacheVarsOfNoTimer, keyVars, mergeVars, runVars, indexVars, funcVars,
                 elements, timerIds, listeners, globalTimerIds>>

(***************************************************************************)
(* JavaScript values                                                       *)
(***************************************************************************)
\* the value undefined (an absent property reads as undefined)
Undefined == [type |-> "undefined"]
\* a string value
Str(s) == [type |-> "string", s |-> s]
\* a host object such as Headers or AbortSignal: it has identity and content,
\* but no own enumerable property
HostObject(id) == [type |-> "host", id |-> id]

(***************************************************************************)
(* The cache key: `${url}${JSON.stringify(options)}`                       *)
(***************************************************************************)
\* JSON.stringify of a property value: a string is quoted (the strings of
\* the model hold no character that needs escaping), a host object has no
\* own enumerable property and serialises as {}, undefined has no
\* serialisation (the property is left out)
StringifyValue(v) ==
    CASE v.type = "string" -> "\"" \o v.s \o "\""
      [] v.type = "host"   -> "{}"
      [] OTHER             -> ""

\* the properties JSON.stringify writes: those whose value is not undefined
RECURSIVE StringifyProps(_)
StringifyProps(props) ==
    IF props = <<>> THEN ""
    ELSE LET p    == Head(props)
             rest == StringifyProps(Tail(props))
         IN IF p[2].type = "undefined" THEN rest
            ELSE "\"" \o p[1] \o "\":" \o StringifyValue(p[2])
                 \o (IF rest = "" THEN "" ELSE "," \o rest)

\* JSON.stringify(options) of a plain object given as its own enumerable
\* properties <<name, value>> in insertion order
JSONstringify(options) == "{" \o StringifyProps(options) \o "}"

CacheKey(url, options) == url \o JSONstringify(options)

(***************************************************************************)
(* cachedFetch                                                             *)
(***************************************************************************)
\* CONFIG.CACHE.DURATION: one hour in milliseconds
CACHE_DURATION == 3600000

\* CONFIG.ENDPOINTS
STUDENT_DATA == "https://schaledb.com/data/en/students.json"
CUSTOM_DATA  == "https://rentry.org/dvdoombday/raw"

\* bounds of SpecCache
MaxCalls == 2
MaxTicks == 2

\* the steps by which the clock advances between two events: together they
\* put an entry's age below, at and above CACHE_DURATION
Deltas == {1, CACHE_DURATION - 1}

\* the two calls fetchBirthdays makes: cachedFetch(url) with options = {}
CacheRequests ==
    { [url |-> STUDENT_DATA, options |-> <<>>],
      [url |-> CUSTOM_DATA,  options |-> <<>>] }

\* response bodies: JSON texts (named by the value they parse to) and a body
\* that is not JSON
Payloads  == {"P1", "P2"}
NotJson   == "<html>"
Bodies    == Payloads \cup {NotJson}
\* what fetch resolves with, as far as cachedFetch reads it: response.ok and
\* the body that response.json() parses
Responses == [ok : BOOLEAN, body : Bodies]
NoResponse == [ok |-> FALSE, body |-> "none"]

\* response.json(): does the body parse
Parses(body) == body \in Payloads

NoRequest == [url |-> "", options |-> <<>>]
IdleCall  == [st |-> "idle", req |-> NoRequest, resp |-> NoResponse, result |-> "none"]

\* variants of the expiry test: the comparison turned around, and the
\* boundary taken as still valid
NotExpiredFlipped(timestamp, t) == t - timestamp > CACHE_DURATION
NotExpiredInclusive(timestamp, t) == t - timestamp <= CACHE_DURATION
\* the expiry test: Date.now() - timestamp < CONFIG.CACHE.DURATION
NotExpired(timestamp, t) == t - timestamp < CACHE_DURATION

\* Map.prototype.delete and Map.prototype.set
MapDelete(m, k) == [x \in (DOMAIN m) \ {k} |-> m[x]]
MapSet(m, k, v) == [x \in (DOMAIN m) \cup {k} |-> IF x = k THEN v ELSE m[x]]
EmptyMap == [x \in {} |-> 0]

InitCacheVars ==
    /\ now = 0
    /\ ticks = 0
    /\ dataCache = EmptyMap
    /\ calls = [c \in 1..MaxCalls |-> IdleCall]
    /\ started = 0
    /\ netFetches = 0
    /\ unloaded = FALSE

\* the synchronous part of cachedFetch(r.url, r.options), up to its first
\* await: the lookup, the eviction of an expired entry, the call of fetch.
\* s holds calls, dataCache, netFetches and started as the call finds them
\* and the time of the call; the value is what the call leaves.
StartCall(s, r) ==
    LET c   == s.started + 1
        key == CacheKey(r.url, r.options)
        hit == enabled /\ key \in DOMAIN s.dataCache
                  /\ NotExpired(s.dataCache[key].timestamp, s.now)
    IN IF hit
       THEN [s EXCEPT !.started = c,
                      !.calls = [s.calls EXCEPT ![c] =
                                   [st |-> "returned", req |-> r, resp |-> NoResponse,
                                    result |-> s.dataCache[key].data]]]
       ELSE [s EXCEPT !.started = c,
                      !.calls = [s.calls EXCEPT ![c] =
                                   [st |-> "awaitFetch", req |-> r, resp |-> NoResponse,
                                    result |-> "none"]],
                      !.dataCache = IF enabled THEN MapDelete(s.dataCache, key)
                                    ELSE s.dataCache,
                      !.netFetches = s.netFetches + 1]

\* one invocation of cachedFetch
CallStart(r) ==
    /\ ~unloaded
    /\ started < MaxCalls
    /\ LET s == StartCall([calls |-> calls, dataCache |-> dataCache,
                           netFetches |-> netFetches, started |-> started,
                           now |-> now], r)
       IN /\ calls' = s.calls
          /\ dataCache' = s.dataCache
          /\ netFetches' = s.netFetches
          /\ started' = s.started
    /\ UNCHANGED <<enabled, now, ticks, unloaded>>
    /\ UNCHANGED nonCacheVars

\* fetch rejects (a network error): the catch block logs and rethrows; with
\* the cache disabled the rejection leaves the function as it is
FetchReject(c) ==
    /\ ~unloaded
    /\ calls[c].st = "awaitFetch"
    /\ calls' = [calls EXCEPT ![c].st = "threw", ![c].result = "TypeError: Failed to fetch"]
    /\ UNCHANGED <<enabled, now, ticks, dataCache, started, netFetches, unloaded>>
    /\ UNCHANGED nonCacheVars

\* variant: response.ok is not looked at
ThrowsOnStatusNever(resp) == FALSE
\* what the code does with a response: with the cache enabled a response
\* that is not ok throws; otherwise response.json() is awaited
ThrowsOnStatus(resp) == enabled /\ ~resp.ok

\* fetch resolves with a response
FetchResolve(c, resp) ==
    /\ ~unloaded
    /\ calls[c].st = "awaitFetch"
    /\ IF ThrowsOnStatus(resp)
       THEN calls' = [calls EXCEPT ![c].st = "threw", ![c].resp = resp,
                                   ![c].result = "Error: HTTP error!"]
       ELSE calls' = [calls EXCEPT ![c].st = "awaitJson", ![c].resp = resp]
    /\ UNCHANGED <<enabled, now, ticks, dataCache, started, netFetches, unloaded>>
    /\ UNCHANGED nonCacheVars

\* variant: a completed load stores only when the key has no entry
StoresIfAbsent(c) ==
    enabled /\ CacheKey(calls[c].req.url, calls[c].req.options) \notin DOMAIN dataCache
\* does a completed load store its data: dataCache.set is on the enabled
\* path only
StoresOnSuccess(c) == enabled

\* response.json() settles: a body that does not parse rejects (rethrown);
\* a parsed body is stored under the key with the time of the store, and
\* returned
JsonSettle(c) ==
    /\ ~unloaded
    /\ calls[c].st = "awaitJson"
    /\ IF Parses(calls[c].resp.body)
       THEN /\ calls' = [calls EXCEPT ![c].st = "returned",
                                      ![c].result = calls[c].resp.body]
            /\ dataCache' =
                 IF StoresOnSuccess(c)
                 THEN MapSet(dataCache,
                             CacheKey(calls[c].req.url, calls[c].req.options),
                             [timestamp |-> now, data |-> calls[c].resp.body])
                 ELSE dataCache
       ELSE /\ calls' = [calls EXCEPT ![c].st = "threw",
                                      ![c].result = "SyntaxError"]
            /\ UNCHANGED dataCache
    /\ UNCHANGED <<enabled, now, ticks, started, netFetches, unloaded>>
    /\ UNCHANGED nonCacheVars

\* time passes
Tick(d) ==
    /\ ~unloaded
    /\ ticks < MaxTicks
    /\ now' = now + d
    /\ ticks' = ticks + 1
    /\ UNCHANGED <<enabled, dataCache, calls, started, netFetches, unloaded>>
    /\ UNCHANGED nonCacheVars

\* the unload handler cleanup(): dataCache.clear(); the page is gone after it
Cleanup ==
    /\ ~unloaded
    /\ unloaded' = TRUE
    /\ dataCache' = EmptyMap
    /\ UNCHANGED <<enabled, now, ticks, calls, started, netFetches>>
    /\ UNCHANGED nonCacheVars

(***************************************************************************)
(* The specifications of cachedFetch                                       *)
(***************************************************************************)
\* the variables of the other specifications, at rest
IdleKeyVars ==
    /\ reqA = NoRequest /\ reqB = NoRequest
    /\ keyA = "" /\ keyB = ""
    /\ kpc = "off"
IdleMergeVars ==
    /\ heap = EmptyMap /\ nextRef = 0
    /\ officialData = EmptyMap /\ customData = <<>>
    /\ processedData = EmptyMap
    /\ idx = 0 /\ warned = 0 /\ mpc = "off"
IdleCacheVars ==
    /\ enabled = TRUE
    /\ InitCacheVars
IdleRunVars ==
    /\ runs = <<>> /\ containers = <<>> /\ timers = {}
IdleIndexVars ==
    /\ students = <<>> /\ acc = EmptyMap /\ ipos = 0 /\ ipc = "off"
IdleFuncVars ==
    /\ args = EmptyMap /\ results = EmptyMap /\ fpc = "off"
IdleTimerVars ==
    /\ elements = EmptyMap /\ intervals = EmptyMap /\ timerIds = <<>>
    /\ timeouts = {} /\ listeners = {} /\ globalTimerIds = FALSE
IdleClockVars ==
    clockState = [impl |-> "off"]
\* the index, the functions, the timers and the clock at rest
IdleLaterVars == IdleIndexVars /\ IdleFuncVars /\ IdleTimerVars /\ IdleClockVars

\* CONFIG.CACHE.ENABLED: true
InitCache ==
    /\ enabled = TRUE
    /\ InitCacheVars
    /\ IdleKeyVars /\ IdleMergeVars /\ IdleRunVars /\ IdleLaterVars

\* CONFIG.CACHE.ENABLED as a configuration switch
InitCacheCfg ==
    /\ enabled \in BOOLEAN
    /\ InitCacheVars
    /\ IdleKeyVars /\ IdleMergeVars /\ IdleRunVars /\ IdleLaterVars

NextCache ==
    \/ \E r \in CacheRequests : CallStart(r)
    \/ \E c \in 1..MaxCalls : FetchReject(c)
    \/ \E c \in 1..MaxCalls : \E resp \in Responses : FetchResolve(c, resp)
    \/ \E c \in 1..MaxCalls : JsonSettle(c)
    \/ \E d \in Deltas : Tick(d)
    \/ Cleanup

SpecCache    == InitCache /\ [][NextCache]_vars
SpecCacheCfg == InitCacheCfg /\ [][NextCache]_vars

(***************************************************************************)
(* Properties of cachedFetch                                               *)
(***************************************************************************)
KeyOf(c) == CacheKey(calls[c].req.url, calls[c].req.options)

\* call c is invoked in this step
Invoked(c) == calls[c].st = "idle" /\ calls'[c].st # "idle"
\* the key of the call invoked in this step
InvokedKey(c) == CacheKey(calls'[c].req.url, calls'[c].req.options)
\* call c is between its fetch and its settlement
InFlight(c) == calls[c].st \in {"awaitFetch", "awaitJson"}

\* C1: with caching enabled, a call that finds an entry for its key whose
\* age (now - timestamp) is strictly below the TTL returns that entry's
\* payload, calls fetch not at all and leaves the cache map as it was.
C1_FreshEntryServed ==
    [][\A c \in 1..MaxCalls :
         (/\ Invoked(c)
          /\ enabled
          /\ InvokedKey(c) \in DOMAIN dataCache
          /\ now - dataCache[InvokedKey(c)].timestamp < CACHE_DURATION)
         => /\ calls'[c].st = "returned"
            /\ calls'[c].result = dataCache[InvokedKey(c)].data
            /\ netFetches' = netFetches
            /\ dataCache' = dataCache]_vars

\* C1 witness: a call has been answered from the cache (it returned without
\* ever holding a response) while the entry is still there.
C1_Witness ==
    \E c \in 1..MaxCalls :
        /\ calls[c].st = "returned"
        /\ calls[c].resp = NoResponse
        /\ KeyOf(c) \in DOMAIN dataCache
        /\ dataCache[KeyOf(c)].data = calls[c].result
        /\ netFetches < started

\* C2: an entry whose age equals the TTL exactly is expired: the lookup
\* evicts it and a fresh load is issued; a call is answered from the cache
\* only when the entry's age is strictly below the TTL.
C2_BoundaryExpired ==
    [][\A c \in 1..MaxCalls :
         /\ (/\ Invoked(c)
             /\ enabled
             /\ InvokedKey(c) \in DOMAIN dataCache
             /\ now - dataCache[InvokedKey(c)].timestamp = CACHE_DURATION)
            => /\ InvokedKey(c) \notin DOMAIN dataCache'
               /\ calls'[c].st = "awaitFetch"
               /\ netFetches' = netFetches + 1
         /\ (Invoked(c) /\ calls'[c].st = "returned")
            => /\ InvokedKey(c) \in DOMAIN dataCache
               /\ now - dataCache[InvokedKey(c)].timestamp < CACHE_DURATION]_vars

\* C2 witness: the first call stored its entry at time 0, the second call
\* for the same key was invoked at time CACHE_DURATION, found the entry
\* gone stale, evicted it and is now loading.
C2_Witness ==
    /\ started = 2
    /\ now = CACHE_DURATION
    /\ calls[1].st = "returned" /\ calls[1].resp # NoResponse
    /\ calls[2].st = "awaitFetch"
    /\ calls[2].req = calls[1].req
    /\ KeyOf(1) \notin DOMAIN dataCache
    /\ netFetches = 2

\* the load of call c fails in this step: fetch rejects, the response is not
\* ok, or the body does not parse
LoadFails(c) ==
    \/ calls[c].st = "awaitFetch" /\ calls'[c].st = "threw"
    \/ calls[c].st = "awaitFetch" /\ calls'[c].resp # NoResponse /\ ~calls'[c].resp.ok
    \/ calls[c].st = "awaitJson" /\ calls'[c] # calls[c] /\ ~Parses(calls[c].resp.body)

\* a load that succeeded: an ok response whose body parsed, returned
SucceededLoad(c) ==
    /\ calls[c].st = "returned"
    /\ calls[c].resp # NoResponse
    /\ calls[c].resp.ok
    /\ Parses(calls[c].resp.body)

\* C3: a load that fails (network error, response not ok, body not JSON)
\* writes nothing to the cache and ends the call with the error thrown; and
\* every entry of the cache is the data of a load that succeeded.
C3_FailuresNotCached ==
    /\ [](\A key \in DOMAIN dataCache :
            \E c \in 1..MaxCalls :
                /\ SucceededLoad(c)
                /\ KeyOf(c) = key
                /\ dataCache[key].data = calls[c].result)
    /\ [][\A c \in 1..MaxCalls :
            LoadFails(c) => /\ calls'[c].st = "threw"
                            /\ dataCache' = dataCache]_vars

\* C3 witness: one call has failed on a response that was not ok, another
\* has loaded and stored its data.
C3_Witness ==
    /\ \E c \in 1..MaxCalls :
            calls[c].st = "threw" /\ calls[c].resp # NoResponse /\ ~calls[c].resp.ok
    /\ \E c \in 1..MaxCalls :
            SucceededLoad(c) /\ KeyOf(c) \in DOMAIN dataCache

\* C4: whatever CONFIG.CACHE.ENABLED is, a call whose response was not ok
\* never returns data: it ends with the error thrown.
C4_NonOkNeverReturned ==
    \A c \in 1..MaxCalls :
        (calls[c].resp # NoResponse /\ ~calls[c].resp.ok)
            => calls[c].st # "returned"

\* C6: a call that misses the cache while another call for the same key is
\* still loading starts a network load of its own, and every load that
\* completes writes its own entry (its data, stamped with the time of the
\* write).
C6_NoInFlightDedup ==
    [][\A c \in 1..MaxCalls :
         /\ (/\ Invoked(c)
             /\ enabled
             /\ \E o \in 1..MaxCalls : InFlight(o) /\ KeyOf(o) = InvokedKey(c)
             /\ ~(/\ InvokedKey(c) \in DOMAIN dataCache
                  /\ now - dataCache[InvokedKey(c)].timestamp < CACHE_DURATION))
            => /\ calls'[c].st = "awaitFetch"
               /\ netFetches' = netFetches + 1
         /\ (enabled /\ calls[c].st = "awaitJson" /\ calls'[c].st = "returned")
            => /\ KeyOf(c) \in DOMAIN dataCache'
               /\ dataCache'[KeyOf(c)] =
                    [timestamp |-> now, data |-> calls'[c].result]]_vars

\* C6 witness: two calls for one key were both loading, both loads have
\* completed, and the entry is the one written by the load that completed
\* over an entry already there.
C6_Witness ==
    \E c, o \in 1..MaxCalls :
        /\ c # o
        /\ KeyOf(c) = KeyOf(o)
        /\ SucceededLoad(c) /\ SucceededLoad(o)
        /\ netFetches >= 2
        /\ calls[c].result # calls[o].result
        /\ ticks = 0
        /\ KeyOf(c) \in DOMAIN dataCache

(***************************************************************************)
(* The cache key as a function of (url, options)                           *)
(***************************************************************************)
\* bound: the number of properties of an options object
MaxProps == 2

\* fetch options and the values the model gives them: method is a string,
\* headers is a Headers object (two of them, with different content)
OptionValues(name) ==
    IF name = "method" THEN {Str("GET"), Str("POST")}
    ELSE {HostObject(1), HostObject(2)}
OptionNames == {"method", "headers"}

\* the options objects: properties in insertion order, each name once
OptionObjects ==
    { o \in UNION { [1..n -> UNION { {<<nm, v>> : v \in OptionValues(nm)} : nm \in OptionNames }]
                    : n \in 0..MaxProps } :
        \A i, j \in 1..Len(o) : i # j => o[i][1] # o[j][1] }

KeyRequests == [url : {STUDENT_DATA, CUSTOM_DATA}, options : OptionObjects]

\* what an options object holds, whatever the order it was written in
OptionSet(options) == { options[i] : i \in 1..Len(options) }

InitKey ==
    /\ reqA \in KeyRequests
    /\ reqB \in KeyRequests
    /\ keyA = "" /\ keyB = ""
    /\ kpc = "input"
    /\ IdleCacheVars /\ IdleMergeVars /\ IdleRunVars /\ IdleLaterVars

\* line 209 for each of the two requests
ComputeKeys ==
    /\ kpc = "input"
    /\ keyA' = CacheKey(reqA.url, reqA.options)
    /\ keyB' = CacheKey(reqB.url, reqB.options)
    /\ kpc' = "keyed"
    /\ UNCHANGED <<reqA, reqB, nonKeyVars>>

NextKey == ComputeKeys

SpecKey == InitKey /\ [][NextKey]_vars

\* C5: the key is an injective function of the request: two requests that
\* differ in url or in option set have different keys.
C5_KeyInjective ==
    (/\ kpc = "keyed"
     /\ \/ reqA.url # reqB.url
        \/ OptionSet(reqA.options) # OptionSet(reqB.options))
        => keyA # keyB

(***************************************************************************)
(* fetchBirthdays: the merge of the official and the custom dataset        *)
(*                                                                         *)
(* Record objects live in a heap and are held by reference, as in          *)
(* JavaScript: officialData (the object cachedFetch returned, which is     *)
(* the very object dataCache holds as the entry's data) and the working    *)
(* set processedData both map a key to a reference.                        *)
(***************************************************************************)
\* bound: the length of the custom list
MaxCustom == 2

\* the mark of a property an object does not own
Absent == [type |-> "absent"]

\* the properties the model follows; School stands for the properties of
\* an official record that the merge does not name.  {} owns none of them.
EmptyObject ==
    [Id |-> Absent, FamilyName |-> Absent, PersonalName |-> Absent,
     BirthDay |-> Absent, DirectImage |-> Absent, School |-> Absent]

\* the reference of Object.prototype, which every object of the payloads
\* and every object literal inherits from
ProtoRef == 0

\* obj.f: the own property, else the property of Object.prototype, else
\* undefined
Get(h, obj, f) ==
    IF obj[f] # Absent THEN obj[f]
    ELSE IF h[ProtoRef][f] # Absent THEN h[ProtoRef][f]
    ELSE Undefined

\* the official records the server may send, by key
OfficialKeySeq == <<"A", "DVDOOM_1">>
OfficialRecord(k) ==
    [Id |-> Str(k), FamilyName |-> Str("X"), PersonalName |-> Str("N"),
     BirthDay |-> Str("1/2"), DirectImage |-> Absent, School |-> Str("S")]

\* the custom records the server may send: JSON objects whose properties
\* are strings or missing
CustomRecords ==
    [Id : {Absent, Str("A"), Str("DVDOOM_1"), Str("Q"), Str("__proto__")},
     FamilyName : {Str("Y"), Str("Z")},
     PersonalName : {Str("P")},
     BirthDay : {Str("3/5")},
     DirectImage : {Str("img1"), Absent},
     School : {Absent}]
CustomLists == UNION { [1..n -> CustomRecords] : n \in 0..MaxCustom }

\* if (studentId): undefined and the empty string are falsy
Truthy(v) == v.type = "string" /\ v.s # ""
\* processedData[studentId]: the reference under the own key, else what
\* Object.prototype answers for the key: the accessor __proto__ yields
\* Object.prototype itself, any other key of the model yields undefined
HasProperty(working, key) == key \in DOMAIN working \/ key = "__proto__"
GetProperty(working, key) ==
    IF key \in DOMAIN working THEN working[key] ELSE ProtoRef
\* the object literal { FamilyName: customStudent.FamilyName, ... }
CustomFields(h, customStudent) ==
    [EmptyObject EXCEPT !.FamilyName = Get(h, customStudent, "FamilyName"),
                        !.PersonalName = Get(h, customStudent, "PersonalName"),
                        !.BirthDay = Get(h, customStudent, "BirthDay"),
                        !.DirectImage = Get(h, customStudent, "DirectImage")]
\* processedData[studentId]: the property key of a string is the string
PropertyKey(v) == v.s

\* `DVDOOM_${Object.keys(processedData).length}`
SyntheticId(working) == "DVDOOM_" \o ToString(Cardinality(DOMAIN working))

\* variant: the record is replaced by one built from the custom fields
\* alone, instead of being written to
AssignReplacing(target, custom) ==
    [EmptyObject EXCEPT !.FamilyName = custom.FamilyName,
                        !.PersonalName = custom.PersonalName,
                        !.BirthDay = custom.BirthDay,
                        !.DirectImage = custom.DirectImage]
\* Object.assign(targetStudent, {FamilyName, PersonalName, BirthDay,
\* DirectImage}): the four properties are written, undefined included
AssignCustom(target, custom) ==
    [target EXCEPT !.FamilyName = custom.FamilyName,
                   !.PersonalName = custom.PersonalName,
                   !.BirthDay = custom.BirthDay,
                   !.DirectImage = custom.DirectImage]

\* both fetches have resolved: the official payload was parsed into fresh
\* objects, one per key, and the custom payload into a list
InitMerge ==
    /\ \E K \in SUBSET (1..Len(OfficialKeySeq)) :
          /\ heap = [r \in K \cup {ProtoRef} |->
                       IF r = ProtoRef THEN EmptyObject
                       ELSE OfficialRecord(OfficialKeySeq[r])]
          /\ officialData = [k \in {OfficialKeySeq[r] : r \in K} |->
                                CHOOSE r \in K : OfficialKeySeq[r] = k]
    /\ nextRef = Len(OfficialKeySeq) + 1
    /\ customData \in CustomLists
    /\ processedData = EmptyMap
    /\ idx = 0
    /\ warned = 0
    /\ mpc = "fetched"
    /\ IdleCacheVars /\ IdleKeyVars /\ IdleRunVars /\ IdleLaterVars

\* const processedData = { ...officialData }: a new object with the same
\* keys, holding the same references
MergeBegin ==
    /\ mpc = "fetched"
    /\ processedData' = officialData
    /\ idx' = 1
    /\ mpc' = "merging"
    /\ UNCHANGED <<heap, nextRef, officialData, customData, warned, nonMergeVars>>

\* one pass of the for-of loop over customData
MergeStep ==
    /\ mpc = "merging"
    /\ idx <= Len(customData)
    /\ LET customStudent == customData[idx]
           studentId     == Get(heap, customStudent, "Id")
       IN IF Truthy(studentId)
          THEN IF HasProperty(processedData, PropertyKey(studentId))
               THEN \* override: the object the lookup answered is written
                    LET ref == GetProperty(processedData, PropertyKey(studentId))
                    IN /\ heap' = [heap EXCEPT ![ref] =
                                      AssignCustom(heap[ref], CustomFields(heap, customStudent))]
                       /\ UNCHANGED <<processedData, nextRef, warned>>
               ELSE \* console.warn and continue
                    /\ warned' = warned + 1
                    /\ UNCHANGED <<heap, processedData, nextRef>>
          ELSE \* addition: a new object under the synthetic key
               LET customId == SyntheticId(processedData)
               IN /\ processedData' = MapSet(processedData, customId, nextRef)
                  /\ heap' = MapSet(heap, nextRef,
                                    AssignCustom(EmptyObject, CustomFields(heap, customStudent)))
                  /\ nextRef' = nextRef + 1
                  /\ UNCHANGED warned
    /\ idx' = idx + 1
    /\ UNCHANGED <<officialData, customData, mpc, nonMergeVars>>

\* the loop has run through the list
MergeEnd ==
    /\ mpc = "merging"
    /\ idx > Len(customData)
    /\ mpc' = "merged"
    /\ UNCHANGED <<heap, nextRef, officialData, customData, processedData, idx,
                   warned, nonMergeVars>>

NextMerge ==
    \/ MergeBegin
    \/ MergeStep
    \/ MergeEnd

SpecMerge == InitMerge /\ [][NextMerge]_vars

(***************************************************************************)
(* Properties of the merge                                                 *)
(***************************************************************************)
MergedFields == {"FamilyName", "PersonalName", "BirthDay", "DirectImage"}
OtherFields  == {"Id", "School"}

\* custom.f as the payload gives it: a missing property is undefined
FieldOf(custom, f) == IF custom[f] = Absent THEN Undefined ELSE custom[f]
\* record.f as a reader of the working set sees it
Reads(h, ref, f) == Get(h, h[ref], f)

\* the custom records that carry identifier k
Carrying(k) ==
    { i \in 1..Len(customData) :
        Truthy(customData[i].Id) /\ PropertyKey(customData[i].Id) = k }
\* the last of a non-empty set of positions
Last(S) == CHOOSE i \in S : \A j \in S : j <= i
\* the custom records without an identifier
Additions == { i \in 1..Len(customData) : ~Truthy(customData[i].Id) }

\* the loop passes over customData[idx] in this step
Passes == mpc = "merging" /\ idx <= Len(customData) /\ idx' = idx + 1

C7_LastOverrideWinsPlainKeys ==
    (/\ mpc = "merged"
     /\ DOMAIN officialData \subseteq {"A"}
     /\ Carrying("__proto__") = {}) =>
        \A k \in DOMAIN officialData :
            Carrying(k) # {} =>
                \A f \in MergedFields :
                    Reads(heap, processedData[k], f) =
                        FieldOf(customData[Last(Carrying(k))], f)

\* C8: a custom record without an identifier is inserted under a key that
\* the working set does not hold at that moment, every key of the working
\* set keeping its record; so the unified set has one record per official
\* key plus one per custom record without an identifier.
C8_AdditionNeverOverwrites ==
    /\ [](mpc = "merged" =>
            Cardinality(DOMAIN processedData) =
                Cardinality(DOMAIN officialData) + Cardinality(Additions))
    /\ [][(Passes /\ ~Truthy(customData[idx].Id)) =>
            /\ Cardinality(DOMAIN processedData') = Cardinality(DOMAIN processedData) + 1
            /\ \A k \in DOMAIN processedData :
                  /\ k \in DOMAIN processedData'
                  /\ processedData'[k] = processedData[k]]_vars

\* C9: after the merge every official record object (the objects of the
\* payload that dataCache still holds) has the field values it was
\* fetched with.
C9_OfficialReadOnly ==
    mpc = "merged" =>
        \A k \in DOMAIN officialData :
            heap[officialData[k]] = OfficialRecord(k)

\* C10: a pass over a custom record whose identifier is a key of the
\* working set writes that record's four fields FamilyName, PersonalName,
\* BirthDay and DirectImage, leaves its other fields as they were, and
\* changes no other record and no key of the working set.
C10_OverrideWritesFourFields ==
    [][(/\ Passes
        /\ Truthy(customData[idx].Id)
        /\ PropertyKey(customData[idx].Id) \in DOMAIN processedData)
        => LET ref == processedData[PropertyKey(customData[idx].Id)]
           IN /\ \A f \in MergedFields :
                    heap'[ref][f] = Get(heap, customData[idx], f)
              /\ \A f \in OtherFields : heap'[ref][f] = heap[ref][f]
              /\ DOMAIN heap' = DOMAIN heap
              /\ \A r \in DOMAIN heap \ {ref} : heap'[r] = heap[r]
              /\ processedData' = processedData]_vars

\* C10 witness: the loop has just passed over an override of official
\* record A while the working set holds a second record: A's family name
\* is the custom one, its Id and School are the official ones.
C10_Witness ==
    /\ mpc = "merging"
    /\ idx > 1
    /\ customData[idx - 1].Id = Str("A")
    /\ "A" \in DOMAIN processedData
    /\ Cardinality(DOMAIN processedData) > 1
    /\ heap[processedData["A"]].FamilyName = customData[idx - 1].FamilyName
    /\ heap[processedData["A"]].FamilyName # OfficialRecord("A").FamilyName
    /\ heap[processedData["A"]].Id = Str("A")
    /\ heap[processedData["A"]].School = Str("S")

\* C11: a pass over a custom record whose identifier is not a key of the
\* working set calls console.warn once, adds no key to the working set,
\* creates no object, leaves every property of every record of the working
\* set reading as before, and moves on to the next custom record.
C11_UnknownIdSkipped ==
    [][(/\ Passes
        /\ Truthy(customData[idx].Id)
        /\ PropertyKey(customData[idx].Id) \notin DOMAIN processedData)
        => /\ warned' = warned + 1
           /\ processedData' = processedData
           /\ nextRef' = nextRef
           /\ \A k \in DOMAIN processedData :
                 \A f \in MergedFields \cup OtherFields :
                    Reads(heap', processedData[k], f) = Reads(heap, processedData[k], f)
           /\ mpc' = "merging"]_vars

\* C11, for the identifiers that Object.prototype does not answer for
C11_UnknownIdSkippedPlainKeys ==
    [][(/\ Passes
        /\ Truthy(customData[idx].Id)
        /\ PropertyKey(customData[idx].Id) \notin DOMAIN processedData
        /\ PropertyKey(customData[idx].Id) # "__proto__")
        => /\ warned' = warned + 1
           /\ heap' = heap
           /\ processedData' = processedData
           /\ nextRef' = nextRef
           /\ mpc' = "merging"]_vars

(***************************************************************************)
(* The runs of the pipeline: initBirthdayAndClock, fetchBirthdays and      *)
(* handleInitializationError                                               *)
(*                                                                         *)
(* A run creates a container, calls cachedFetch for the two datasets and   *)
(* awaits Promise.all of the two; the cachedFetch calls go on by the       *)
(* actions FetchReject, FetchResolve and JsonSettle above.  What follows   *)
(* the await (the merge, the index, the rendering, or the catch blocks)    *)
(* has no await of its own and is one step.                                *)
(***************************************************************************)
\* bound: the number of runs
MaxRuns == 2

\* the delay of the retry: setTimeout(..., 30000)
RETRY_DELAY == 30000

\* the responses of the runs: every body with status ok, and an error
\* status
RunResponses == { resp \in Responses : resp.ok \/ resp.body = NotJson }

\* a payload of the model that holds no record with a birthday
NoBirthdays(payload) == payload = "P2"
\* Object.keys(birthdays).length === 0 for the index of the two payloads
IndexEmpty(official, custom) == NoBirthdays(official) /\ NoBirthdays(custom)

\* the synchronous part of initBirthdayAndClock: the container is created
\* and appended to DVDoomParent, then fetchBirthdays calls cachedFetch for
\* the official and for the custom dataset, in this order
RunBegun(s) ==
    StartCall(StartCall(s, [url |-> STUDENT_DATA, options |-> <<>>]),
              [url |-> CUSTOM_DATA, options |-> <<>>])
NewRun(first, container) ==
    [pc |-> "awaitAll", official |-> first, custom |-> first + 1,
     container |-> container, merged |-> FALSE, birthdays |-> "none",
     retries |-> 0]
NewContainer == [content |-> "", isConnected |-> TRUE]

\* the script has been evaluated: its last statement has called
\* initBirthdayAndClock, which has run up to its await
InitRun ==
    /\ enabled = TRUE
    /\ now = 0 /\ ticks = 0 /\ unloaded = FALSE
    /\ LET s == RunBegun([calls |-> [c \in 1..(2 * MaxRuns) |-> IdleCall],
                          dataCache |-> EmptyMap, netFetches |-> 0, started |-> 0,
                          now |-> 0])
       IN /\ calls = s.calls
          /\ dataCache = s.dataCache
          /\ netFetches = s.netFetches
          /\ started = s.started
    /\ runs = <<NewRun(1, 1)>>
    /\ containers = <<NewContainer>>
    /\ timers = {}
    /\ IdleKeyVars /\ IdleMergeVars /\ IdleLaterVars

\* Promise.all([official, custom]) as the run awaits it
AllSettledOneFulfilled(r) ==
    /\ {calls[runs[r].official].st, calls[runs[r].custom].st} \subseteq {"returned", "threw"}
    /\ "returned" \in {calls[runs[r].official].st, calls[runs[r].custom].st}
\* fulfilled when both calls have returned
AllFulfilled(r) ==
    calls[runs[r].official].st = "returned" /\ calls[runs[r].custom].st = "returned"
\* rejected as soon as one call has thrown
AllRejected(r) ==
    calls[runs[r].official].st = "threw" \/ calls[runs[r].custom].st = "threw"

\* handleInitializationError(container, error) with the container of the
\* run (never null once the run awaits): the fallback is written and one
\* timeout is set
ShowsFallback(cs, c) == [cs EXCEPT ![c].content = "fallback"]
SetsNoTimeout(ts, c) == ts
SetsRetryTimeout(ts, c) == ts \cup {[container |-> c, due |-> now + RETRY_DELAY]}

\* the await of Promise.all is over with both values: the merge loop and
\* the reduce run; an empty index throws 'No birthday data available',
\* which the catch block hands to handleInitializationError; otherwise the
\* table is written into the container
RunResolve(r) ==
    /\ ~unloaded
    /\ runs[r].pc = "awaitAll"
    /\ AllFulfilled(r)
    /\ LET c == runs[r].container
       IN IF IndexEmpty(calls[runs[r].official].result, calls[runs[r].custom].result)
          THEN /\ runs' = [runs EXCEPT ![r].pc = "failed", ![r].merged = TRUE,
                                       ![r].birthdays = "empty",
                                       ![r].retries = runs[r].retries + 1]
               /\ containers' = ShowsFallback(containers, c)
               /\ timers' = SetsRetryTimeout(timers, c)
          ELSE /\ runs' = [runs EXCEPT ![r].pc = "rendered", ![r].merged = TRUE,
                                       ![r].birthdays = "index"]
               /\ containers' = [containers EXCEPT ![c].content = "table"]
               /\ UNCHANGED timers
    /\ UNCHANGED <<cacheVars, nonRunVars>>

\* the await of Promise.all is over with a rejection: the catch block of
\* fetchBirthdays rethrows, the one of initBirthdayAndClock calls
\* handleInitializationError
RunReject(r) ==
    /\ ~unloaded
    /\ runs[r].pc = "awaitAll"
    /\ AllRejected(r)
    /\ LET c == runs[r].container
       IN /\ runs' = [runs EXCEPT ![r].pc = "failed",
                                  ![r].retries = runs[r].retries + 1]
          /\ containers' = ShowsFallback(containers, c)
          /\ timers' = SetsRetryTimeout(timers, c)
    /\ UNCHANGED <<cacheVars, nonRunVars>>

\* a retry timeout fires, 30 s after it was set: if the container is still
\* in the document, initBirthdayAndClock runs again up to its await
RetryFire(t) ==
    /\ ~unloaded
    /\ t \in timers
    /\ Len(runs) < MaxRuns
    /\ timers' = timers \ {t}
    /\ now' = IF now < t.due THEN t.due ELSE now
    /\ IF containers[t.container].isConnected
       THEN LET s == RunBegun([calls |-> calls, dataCache |-> dataCache,
                               netFetches |-> netFetches, started |-> started,
                               now |-> IF now < t.due THEN t.due ELSE now])
            IN /\ calls' = s.calls
               /\ dataCache' = s.dataCache
               /\ netFetches' = s.netFetches
               /\ started' = s.started
               /\ runs' = Append(runs, NewRun(started + 1, Len(containers) + 1))
               /\ containers' = Append(containers, NewContainer)
       ELSE UNCHANGED <<calls, dataCache, netFetches, started, runs, containers>>
    /\ UNCHANGED <<enabled, ticks, unloaded, nonRunVars>>

NextRun ==
    \/ \E c \in DOMAIN calls : FetchReject(c)
    \/ \E c \in DOMAIN calls : \E resp \in RunResponses : FetchResolve(c, resp)
    \/ \E c \in DOMAIN calls : JsonSettle(c)
    \/ \E r \in DOMAIN runs : RunResolve(r)
    \/ \E r \in DOMAIN runs : RunReject(r)
    \/ \E t \in timers : RetryFire(t)
    \/ Cleanup

SpecRun == InitRun /\ [][NextRun]_vars

\* a timeout that has been set fires: the event loop runs the callback of
\* a pending timer once its delay is over, as long as the page is loaded
SpecRunFair == SpecRun /\ WF_vars(\E t \in timers : RetryFire(t))

(***************************************************************************)
(* Properties of the runs                                                  *)
(***************************************************************************)
\* C12: a run one of whose two fetches has failed has not run the merge
\* loop, has no index, has not rendered the table into its container and
\* is not past its await other than by failing.
C12_FailFast ==
    \A r \in DOMAIN runs :
        AllRejected(r) =>
            /\ ~runs[r].merged
            /\ runs[r].birthdays = "none"
            /\ runs[r].pc \in {"awaitAll", "failed"}
            /\ containers[runs[r].container].content # "table"

\* C12 witness: the official fetch of a run has returned its payload, the
\* custom one has failed, and the run has ended in failure without a merge.
C12_Witness ==
    \E r \in DOMAIN runs :
        /\ calls[runs[r].official].st = "returned"
        /\ calls[runs[r].custom].st = "threw"
        /\ runs[r].pc = "failed"
        /\ ~runs[r].merged
        /\ containers[runs[r].container].content = "fallback"

\* a run fails in this step
Fails(r) == r \in DOMAIN runs /\ runs[r].pc = "awaitAll" /\ runs'[r].pc = "failed"

MaxStudents == 3

\* a string as its characters
Chars(cs) == [type |-> "string", s |-> cs]

\* the unified records
BirthDayValues ==
    { Chars(<<"3", "/", "5">>), Chars(<<"1", "3", "/", "4", "5">>),
      Chars(<<"3", "-", "5">>), Undefined }
StudentRecords ==
    [Id : {Str("A")},
     FamilyName : {Str("Alice")},
     PersonalName : {Str("Smith"), Str("Jones")},
     BirthDay : BirthDayValues,
     DirectImage : {Str("img1"), Str("img2"), Undefined}]
StudentLists == UNION { [1..n -> StudentRecords] : n \in 0..MaxStudents }

\* \d
DigitSeq == <<"0", "1", "2", "3", "4", "5", "6", "7", "8", "9">>
IsDigit(ch) == \E v \in 1..Len(DigitSeq) : DigitSeq[v] = ch
DigitValue(ch) == (CHOOSE v \in 1..Len(DigitSeq) : DigitSeq[v] = ch) - 1

\* \d+ from position i, which holds a digit: the last position of the run
RECURSIVE RunEnd(_, _)
RunEnd(cs, i) ==
    IF i < Len(cs) /\ IsDigit(cs[i + 1]) THEN RunEnd(cs, i + 1) ELSE i

\* Number of a run of digits
RECURSIVE NumberOf(_)
NumberOf(ds) ==
    IF ds = <<>> THEN 0
    ELSE 10 * NumberOf(SubSeq(ds, 1, Len(ds) - 1)) + DigitValue(ds[Len(ds)])

\* /(\d+)\/(\d+)/ matches from position i
MatchesAt(cs, i) ==
    /\ IsDigit(cs[i])
    /\ RunEnd(cs, i) + 2 <= Len(cs)
    /\ cs[RunEnd(cs, i) + 1] = "/"
    /\ IsDigit(cs[RunEnd(cs, i) + 2])

NoMatch == [month |-> -1, day |-> -1]
\* student.BirthDay?.match(/(\d+)\/(\d+)/) and .map(Number): the leftmost
\* match; undefined for an undefined BirthDay, null without a match
BirthdayMatch(v) ==
    IF v.type # "string" \/ ~\E i \in 1..Len(v.s) : MatchesAt(v.s, i)
    THEN NoMatch
    ELSE LET i == CHOOSE k \in 1..Len(v.s) :
                     MatchesAt(v.s, k) /\ \A l \in 1..(k - 1) : ~MatchesAt(v.s, l)
             j == RunEnd(v.s, i)
         IN [month |-> NumberOf(SubSeq(v.s, i, j)),
             day   |-> NumberOf(SubSeq(v.s, j + 2, RunEnd(v.s, j + 2)))]

\* variant: .match without the optional chaining throws on undefined
MatchThrowsOnUndefined(v) == v.type # "string"
\* does evaluating student.BirthDay?.match(...) throw
MatchThrows(v) == FALSE

\* ${value} in a template literal
Template(v) == IF v.type = "string" THEN v.s ELSE "undefined"
\* `${student.FamilyName} ${student.PersonalName}`
NameOf(student) == Template(student.FamilyName) \o " " \o Template(student.PersonalName)
\* student.DirectImage || `https://schaledb.com/.../${student.Id}.webp`
ImageOf(student) ==
    IF Truthy(student.DirectImage) THEN student.DirectImage.s
    ELSE "https://schaledb.com/images/student/collection/"
            \o Template(student.Id) \o ".webp"

\* variant: the image is pushed without looking at the list
IncludesNever(images, url) == FALSE
\* existingEntry.images.includes(url)
Includes(images, url) == \E k \in 1..Len(images) : images[k] = url

\* acc[month][day] after `acc[month] = acc[month] || {}` and
\* `acc[month][day] = acc[month][day] || []`
Bucket(a, month, day) ==
    IF month \in DOMAIN a /\ day \in DOMAIN a[month] THEN a[month][day] ELSE <<>>

\* the body of the reduce callback for a student whose BirthDay matched
Indexed(a, month, day, student) ==
    LET bucket   == Bucket(a, month, day)
        name     == NameOf(student)
        url      == ImageOf(student)
        found    == { e \in 1..Len(bucket) : bucket[e].name = name }
        newBucket ==
            IF found # {}
            THEN \* find answers the first entry of that name
                 LET e == CHOOSE x \in found : \A y \in found : x <= y
                 IN IF Includes(bucket[e].images, url) THEN bucket
                    ELSE [bucket EXCEPT ![e].images = Append(@, url)]
            ELSE Append(bucket, [name |-> name, images |-> <<url>>])
        days == IF month \in DOMAIN a THEN a[month] ELSE EmptyMap
    IN MapSet(a, month, MapSet(days, day, newBucket))

\* the merge is over: the reduce starts with {} on the values of the
\* working set
InitIndex ==
    /\ students \in StudentLists
    /\ acc = EmptyMap
    /\ ipos = 1
    /\ ipc = "reducing"
    /\ IdleCacheVars /\ IdleKeyVars /\ IdleMergeVars /\ IdleRunVars /\ IdleFuncVars
    /\ IdleTimerVars /\ IdleClockVars

\* one call of the reduce callback
IndexStep ==
    /\ ipc = "reducing"
    /\ ipos <= Len(students)
    /\ LET student == students[ipos]
       IN IF MatchThrows(student.BirthDay)
          THEN /\ ipc' = "threw"
               /\ UNCHANGED <<acc, ipos>>
          ELSE LET birthdayMatch == BirthdayMatch(student.BirthDay)
               IN /\ acc' = IF birthdayMatch = NoMatch THEN acc
                            ELSE Indexed(acc, birthdayMatch.month, birthdayMatch.day, student)
                  /\ ipos' = ipos + 1
                  /\ UNCHANGED ipc
    /\ UNCHANGED <<students, nonIndexVars>>

\* the reduce returns the accumulator
IndexEnd ==
    /\ ipc = "reducing"
    /\ ipos > Len(students)
    /\ ipc' = "returned"
    /\ UNCHANGED <<students, acc, ipos, nonIndexVars>>

NextIndex ==
    \/ IndexStep
    \/ IndexEnd

SpecIndex == InitIndex /\ [][NextIndex]_vars

(***************************************************************************)
(* Properties of the index                                                 *)
(***************************************************************************)
\* the buckets of the accumulator
Buckets == { <<month, day>> \in UNION { {m} \X DOMAIN acc[m] : m \in DOMAIN acc } : TRUE }

\* a sequence without its repetitions, first occurrences kept in order
RECURSIVE Distinct(_)
Distinct(q) ==
    IF q = <<>> THEN <<>>
    ELSE LET front == Distinct(SubSeq(q, 1, Len(q) - 1))
             x     == q[Len(q)]
         IN IF \E k \in 1..Len(front) : front[k] = x THEN front ELSE Append(front, x)

\* the images of the first n students that fall into bucket b under the
\* given name, in the order of the visit
RECURSIVE VisitedImages(_, _, _)
VisitedImages(n, b, name) ==
    IF n = 0 THEN <<>>
    ELSE LET m == BirthdayMatch(students[n].BirthDay)
         IN IF <<m.month, m.day>> = b /\ NameOf(students[n]) = name
            THEN Append(VisitedImages(n - 1, b, name), ImageOf(students[n]))
            ELSE VisitedImages(n - 1, b, name)

\* C13: in every bucket of the index no two entries have the same name, no
\* entry lists an image twice, and the images of an entry are the images of
\* the visited records of that bucket and name, without repetition, in the
\* order of the visit.
C13_BucketDedup ==
    \A b \in Buckets :
        LET bucket == acc[b[1]][b[2]]
        IN /\ \A e, g \in 1..Len(bucket) : bucket[e].name = bucket[g].name => e = g
           /\ \A e \in 1..Len(bucket) :
                 /\ \A k, l \in 1..Len(bucket[e].images) :
                       bucket[e].images[k] = bucket[e].images[l] => k = l
                 /\ bucket[e].images =
                       Distinct(VisitedImages(ipos - 1, b, bucket[e].name))

\* C13 witness: three records of one name and date with the images img1,
\* img2, img1 have been reduced to the one entry [img1, img2].
C13_Witness ==
    /\ ipc = "returned"
    /\ Len(students) = 3
    /\ ImageOf(students[1]) = "img1" /\ ImageOf(students[2]) = "img2"
    /\ ImageOf(students[3]) = "img1"
    /\ 3 \in DOMAIN acc /\ 5 \in DOMAIN acc[3]
    /\ acc[3][5] = <<[name |-> "Alice Smith", images |-> <<"img1", "img2">>]>>

\* C14: every month key of the index is in 1..12 and every day key in
\* 1..31.
C14_CalendarKeys ==
    \A b \in Buckets : b[1] \in 1..12 /\ b[2] \in 1..31

\* the date of a record parses when the pattern of the code matches it
Parsable(student) == BirthdayMatch(student.BirthDay) # NoMatch

JsRem(a, b) == IF a >= 0 THEN a % b ELSE 0 - ((0 - a) % b)

\* variant: the quotient rounded to the nearest integer
MathRoundDiv(a, b) == (2 * a + b) \div (2 * b)
\* Math.floor(a / b) for a positive b
MathFloorDiv(a, b) == a \div b

\* `${days > 0 ? days + "d " : ""}${hours}h ${minutes}m`
DurationText(days, hours, minutes) ==
    (IF days > 0 THEN ToString(days) \o "d " ELSE "")
        \o ToString(hours) \o "h " \o ToString(minutes) \o "m"

\* formatTimeRemaining(duration) of Events2.js
formatTimeRemaining(duration) ==
    LET days    == MathFloorDiv(duration, 1000 * 60 * 60 * 24)
        hours   == MathFloorDiv(JsRem(duration, 1000 * 60 * 60 * 24), 1000 * 60 * 60)
        minutes == MathFloorDiv(JsRem(duration, 1000 * 60 * 60), 1000 * 60)
    IN DurationText(days, hours, minutes)

\* formatDuration(duration) of Utils.js
formatDuration(duration) ==
    LET days    == MathFloorDiv(duration, 1000 * 60 * 60 * 24)
        hours   == MathFloorDiv(JsRem(duration, 1000 * 60 * 60 * 24), 1000 * 60 * 60)
        minutes == MathFloorDiv(JsRem(duration, 1000 * 60 * 60), 1000 * 60)
    IN DurationText(days, hours, minutes)

\* variant: the first comparison takes the start itself as still ahead
getTimerDisplayTextInclusive(currentTime, startTime, endTime) ==
    IF currentTime <= startTime
    THEN "Starts in: " \o formatTimeRemaining(startTime - currentTime)
    ELSE IF currentTime < endTime
    THEN "Time Left: " \o formatTimeRemaining(endTime - currentTime)
    ELSE "Event Ended"
\* getTimerDisplayText(currentTime, startTime, endTime) of Events2.js
getTimerDisplayText(currentTime, startTime, endTime) ==
    IF currentTime < startTime
    THEN "Starts in: " \o formatTimeRemaining(startTime - currentTime)
    ELSE IF currentTime < endTime
    THEN "Time Left: " \o formatTimeRemaining(endTime - currentTime)
    ELSE "Event Ended"

\* new Date(x).getTime() for a number x within the range of time values
\* (|x| <= 8.64e15, which every instant of the model is): x
DateGetTime(x) == x

\* calculateTimeLeft(startTime, endTime) of Utils.js, called at clock
calculateTimeLeft(clock, startTime, endTime) ==
    LET start == DateGetTime(startTime)
        end   == DateGetTime(endTime)
    IN IF clock < start
       THEN "Starts in: " \o formatDuration(start - clock)
       ELSE IF clock < end
       THEN "Time Left: " \o formatDuration(end - clock)
       ELSE "Event Ended"

\* bound: the durations run up to MaxDays days
MaxDays == 2
\* durations around every boundary of the units
Durations ==
    { d * 86400000 + h * 3600000 + m * 60000 + r :
        d \in 0..MaxDays, h \in {0, 1, 23}, m \in {0, 1, 59}, r \in {0, 30000, 59999} }

\* bound: the instants are the multiples of InstantStep up to MaxInstant
MaxInstant == 4
\* 12 h 30 min
InstantStep == 750 * 60000
Instants == { k * InstantStep : k \in 0..MaxInstant }

\* a duration to be formatted
InitDuration ==
    /\ args \in [duration : Durations]
    /\ results = EmptyMap
    /\ fpc = "called"
    /\ IdleCacheVars /\ IdleKeyVars /\ IdleMergeVars /\ IdleRunVars /\ IdleIndexVars
    /\ IdleClockVars
    /\ IdleTimerVars

\* both formatters return
FormatBoth ==
    /\ fpc = "called"
    /\ results' = [formatTimeRemaining |-> formatTimeRemaining(args.duration),
                   formatDuration      |-> formatDuration(args.duration)]
    /\ fpc' = "returned"
    /\ UNCHANGED <<args, nonFuncVars>>

NextDuration == FormatBoth

SpecDuration == InitDuration /\ [][NextDuration]_vars

\* a window and the clock
InitLabel ==
    /\ args \in [now : Instants, start : Instants, end : Instants]
    /\ results = EmptyMap
    /\ fpc = "called"
    /\ IdleCacheVars /\ IdleKeyVars /\ IdleMergeVars /\ IdleRunVars /\ IdleIndexVars
    /\ IdleClockVars
    /\ IdleTimerVars

\* both label functions return
LabelBoth ==
    /\ fpc = "called"
    /\ results' = [getTimerDisplayText |->
                       getTimerDisplayText(args.now, args.start, args.end),
                   calculateTimeLeft |->
                       calculateTimeLeft(args.now, args.start, args.end)]
    /\ fpc' = "returned"
    /\ UNCHANGED <<args, nonFuncVars>>

NextLabel == LabelBoth

SpecLabel == InitLabel /\ [][NextLabel]_vars

(***************************************************************************)
(* Properties of the countdown label                                       *)
(***************************************************************************)
\* the labels of the specification
Pending(clock, start) == "Starts in: " \o formatDuration(start - clock)
Active(clock, end)    == "Time Left: " \o formatDuration(end - clock)
Ended                 == "Event Ended"
Labels == {results[f] : f \in DOMAIN results}

\* C17: a label is the 'Starts in' label exactly when now < start, the
\* 'Time Left' label exactly when start <= now < end, and 'Event Ended'
\* exactly when now >= end.
C17_LabelByWindow ==
    fpc = "returned" =>
        \A label \in Labels :
            /\ label = Pending(args.now, args.start) <=> args.now < args.start
            /\ label = Active(args.now, args.end)
                  <=> (args.start <= args.now /\ args.now < args.end)
            /\ label = Ended <=> args.now >= args.end

\* C17 as amended: 'Event Ended' exactly when now >= end and now >= start;
\* the other two as stated.
C17_LabelByWindowAmended ==
    fpc = "returned" =>
        \A label \in Labels :
            /\ label = Pending(args.now, args.start) <=> args.now < args.start
            /\ label = Active(args.now, args.end)
                  <=> (args.start <= args.now /\ args.now < args.end)
            /\ label = Ended <=> (args.now >= args.end /\ args.now >= args.start)

\* C17 witness: the end of the window lies before its start and the clock
\* between the two; both functions answer with the 'Starts in' label.
C17_Witness ==
    /\ fpc = "returned"
    /\ args.end <= args.now /\ args.now < args.start
    /\ Labels = {"Starts in: 12h 30m"}

\* the decomposition of the specification
DaysOf(ms)    == ms \div 86400000
HoursOf(ms)   == (ms % 86400000) \div 3600000
MinutesOf(ms) == (ms % 3600000) \div 60000

\* C20: for a duration ms >= 0 both formatters return the text made of
\* days = floor(ms / 86400000), shown as 'Nd ' exactly when days > 0,
\* hours = floor((ms mod 86400000) / 3600000), which is in 0..23, and
\* minutes = floor((ms mod 3600000) / 60000), which is in 0..59; 90000
\* gives '0h 1m', 90000000 gives '1d 1h 0m', and less than a minute gives
\* '0h 0m'.
C20_DurationFloor ==
    fpc = "returned" =>
        LET ms == args.duration
        IN /\ HoursOf(ms) \in 0..23 /\ MinutesOf(ms) \in 0..59
           /\ \A f \in DOMAIN results :
                 /\ DaysOf(ms) > 0 =>
                       results[f] = ToString(DaysOf(ms)) \o "d " \o ToString(HoursOf(ms))
                                       \o "h " \o ToString(MinutesOf(ms)) \o "m"
                 /\ DaysOf(ms) = 0 =>
                       results[f] = ToString(HoursOf(ms)) \o "h "
                                       \o ToString(MinutesOf(ms)) \o "m"
                 /\ ms = 90000 => results[f] = "0h 1m"
                 /\ ms = 90000000 => results[f] = "1d 1h 0m"
                 /\ ms < 60000 => results[f] = "0h 0m"

\* C20 witness: 25 hours have been formatted as '1d 1h 0m' by both.
C20_Witness ==
    /\ fpc = "returned"
    /\ args.duration = 90000000
    /\ results = [formatTimeRemaining |-> "1d 1h 0m", formatDuration |-> "1d 1h 0m"]

(***************************************************************************)
(* The expiry filter and the label of one event: hasExpired and formatDate *)
(* of Utils.js as processEventPair and processEventDetails call them       *)
(*                                                                         *)
(* eventData.start and eventData.end are Unix timestamps in seconds.  The  *)
(* text formatDate returns is kept as the record of the fields it prints;  *)
(* the local time zone is taken to be UTC.                                 *)
(***************************************************************************)
\* bound: the events start and end within this many minutes of the epoch
MaxMinutes == 2

\* timestamps in seconds, on and between the full minutes
EventSeconds == { 30 * k : k \in 0..(2 * MaxMinutes) }
\* Date.now(), in milliseconds, every ten seconds
ExpiryNows == { 10000 * k : k \in 0..(6 * MaxMinutes + 1) }

\* new Date(x).getTime() of a text that is not a date
NaN == -1

\* formatDate(timestamp) of a number: new Date(timestamp * 1000), printed as
\* `${year}/${month}/${day}, ${hours}:${minutes}`
formatDate(timestamp) ==
    LET date == timestamp * 1000
    IN [year |-> 1970, month |-> 1, day |-> 1 + (date \div 86400000),
        hours |-> (date % 86400000) \div 3600000,
        minutes |-> (date % 3600000) \div 60000,
        seconds |-> 0]

\* new Date(text).getTime() of such a text.  The format is not the one the
\* language defines, so an engine reads it as local time or not at all.
DateParse(text, parses) ==
    IF parses
    THEN (text.day - 1) * 86400000 + text.hours * 3600000
            + text.minutes * 60000 + text.seconds * 1000
    ELSE NaN

\* hasExpired(endTime) of a number below 1e12, at the time t
hasExpired(endTime, t) == endTime * 1000 <= t

\* calculateTimeLeft(startTime, endTime) of two texts at the time t: a
\* comparison with NaN is false
LabelOfTexts(t, startTime, endTime, parses) ==
    LET start == DateParse(startTime, parses)
        end   == DateParse(endTime, parses)
    IN IF start # NaN /\ end # NaN THEN calculateTimeLeft(t, start, end)
       ELSE IF start # NaN /\ t < start
       THEN "Starts in: " \o formatDuration(start - t)
       ELSE IF end # NaN /\ t < end
       THEN "Time Left: " \o formatDuration(end - t)
       ELSE "Event Ended"

\* one event of currentEvents, the time, and whether the engine reads the
\* text of formatDate
InitExpiry ==
    /\ \E start, end \in EventSeconds : \E t \in ExpiryNows : \E parses \in BOOLEAN :
          /\ start <= end
          /\ args = [start |-> start, end |-> end, now |-> t, parses |-> parses]
    /\ results = EmptyMap
    /\ fpc = "called"
    /\ IdleCacheVars /\ IdleKeyVars /\ IdleMergeVars /\ IdleRunVars /\ IdleIndexVars
    /\ IdleClockVars
    /\ IdleTimerVars

\* processEventPair for the event: hasExpired(eventData.end) decides
\* whether it is skipped; processEventDetails formats start and end, and
\* the timer computes its label from the two texts
ProcessEvent ==
    /\ fpc = "called"
    /\ LET startTime == formatDate(args.start)
           endTime   == formatDate(args.end)
       IN results' = [skipped |-> hasExpired(args.end, args.now),
                      startTime |-> startTime, endTime |-> endTime,
                      label |-> LabelOfTexts(args.now, startTime, endTime,
                                             args.parses)]
    /\ fpc' = "returned"
    /\ UNCHANGED <<args, nonFuncVars>>

NextExpiry == ProcessEvent

SpecExpiry == InitExpiry /\ [][NextExpiry]_vars

(***************************************************************************)
(* The countdown timers: initializeEventTimer, updateEventTimer and        *)
(* cleanupTimer of Events2.js, createCountdownTimer of Utils.js            *)
(*                                                                         *)
(* An interval is known by the handle setInterval returned.  Each interval *)
(* record keeps what its callback closes over, whether it is still set,    *)
(* and a record of what its ticks have met.                                *)
(***************************************************************************)
\* bounds: the number of timers registered, the steps of the clock
MaxTimers == 2
MaxNow    == 3

\* CONFIG.TIMER of Events2.js; createCountdownTimer uses the same period
UPDATE_INTERVAL == 1000
CLEANUP_DELAY   == 100

\* `event-timer-${eventNum}`
TargetId(eventNum) == "event-timer-" \o ToString(eventNum)
\* the window of the events: ahead when the page is rendered, over when
\* the clock has run out
Windows == { [start |-> UPDATE_INTERVAL, end |-> 2 * UPDATE_INTERVAL] }

\* the timers registered so far, and the handle setInterval returns next
Registered ==
    Cardinality(timeouts)
        + Cardinality({h \in DOMAIN intervals : intervals[h].impl # "handler 1000"})
NextHandle == Cardinality(DOMAIN intervals) + 1

\* an interval as setInterval leaves it.  target is the id of the element
\* the timer was registered for, lookup the value its callback hands to
\* getElementById.
NewInterval(impl, w, target, lookup) ==
    [impl |-> impl, start |-> w.start, end |-> w.end, target |-> target,
     lookup |-> lookup, active |-> TRUE,
     sawEnded |-> FALSE, sawMissing |-> FALSE, invokedAfterMissing |-> FALSE,
     endedWrites |-> 0, threw |-> FALSE]

\* clearInterval(handle)
ClearInterval(ivs, handle) ==
    IF handle \in DOMAIN ivs THEN [ivs EXCEPT ![handle].active = FALSE] ELSE ivs

\* splice(index): everything from the first occurrence on goes
SplicedFrom(ids, handle) ==
    IF \E k \in 1..Len(ids) : ids[k] = handle
    THEN LET index == CHOOSE k \in 1..Len(ids) :
                          ids[k] = handle /\ \A l \in 1..(k - 1) : ids[l] # handle
         IN SubSeq(ids, 1, index - 1)
    ELSE ids
\* timerIds.indexOf(handle) and splice(index, 1): the first occurrence goes
Spliced(ids, handle) ==
    IF \E k \in 1..Len(ids) : ids[k] = handle
    THEN LET index == CHOOSE k \in 1..Len(ids) :
                          ids[k] = handle /\ \A l \in 1..(k - 1) : ids[l] # handle
         IN SubSeq(ids, 1, index - 1) \o SubSeq(ids, index + 1, Len(ids))
    ELSE ids

\* the page has rendered the display targets; no timer is registered
InitTimers ==
    /\ elements = [id \in {TargetId(n) : n \in 1..MaxTimers} |-> ""]
    /\ intervals = EmptyMap
    /\ timerIds = <<>>
    /\ timeouts = {}
    /\ listeners = {}
    /\ globalTimerIds \in BOOLEAN
    /\ IdleCacheVars /\ IdleKeyVars /\ IdleMergeVars /\ IdleRunVars
    /\ IdleIndexVars /\ IdleFuncVars /\ IdleClockVars

\* initializeEventTimer(startTime, endTime, timerId, timerIds): the setup
\* is put off by CLEANUP_DELAY
InitializeEventTimer(w, eventNum) ==
    /\ ~unloaded
    /\ Registered < MaxTimers
    /\ timeouts' = timeouts \cup
          {[start |-> w.start, end |-> w.end, timerId |-> TargetId(eventNum),
            due |-> now + CLEANUP_DELAY, nth |-> Registered + 1]}
    /\ UNCHANGED <<elements, intervals, timerIds, listeners, globalTimerIds,
                   now, unloaded, nonTimerVars>>

\* the callback of that timeout, once the delay is over: the interval is
\* set, its handle is pushed on timerIds and an unload listener is added.  The const timerId that
\* holds the handle hides the parameter timerId, so the interval's callback
\* hands the handle to updateEventTimer.
TimeoutFire(t) ==
    /\ ~unloaded
    /\ t \in timeouts
    /\ now >= t.due
    /\ timeouts' = timeouts \ {t}
    /\ intervals' = MapSet(intervals, NextHandle,
                           NewInterval("updateEventTimer", t, t.timerId,
                                       ToString(NextHandle)))
    /\ timerIds' = Append(timerIds, NextHandle)
    /\ listeners' = listeners \cup {NextHandle}
    /\ UNCHANGED <<elements, globalTimerIds, now, unloaded, nonTimerVars>>

\* createCountdownTimer(startTime, endTime, elementId, timerIds):
\* setInterval(1000) sets an interval whose handler is the number 1000;
\* updateTimer runs once with that handle in timerId; then the interval of
\* updateTimer is set and its handle pushed
CreateCountdownTimer(w, eventNum) ==
    /\ ~unloaded
    /\ Registered < MaxTimers
    /\ LET first       == NextHandle
           elementId   == TargetId(eventNum)
           displayText == calculateTimeLeft(now, w.start, w.end)
           set1        == MapSet(intervals, first,
                                 NewInterval("handler 1000", w, elementId, elementId))
           cleared     == IF elementId \notin DOMAIN elements
                             \/ displayText = "Event Ended"
                          THEN ClearInterval(set1, first) ELSE set1
       IN /\ elements' = IF elementId \in DOMAIN elements
                         THEN [elements EXCEPT ![elementId] = displayText]
                         ELSE elements
          /\ intervals' = MapSet(cleared, first + 1,
                                 NewInterval("updateTimer", w, elementId, elementId))
          /\ timerIds' = Append(timerIds, first + 1)
    /\ UNCHANGED <<timeouts, listeners, globalTimerIds, now, unloaded, nonTimerVars>>

\* what the ticks of an interval have met, kept for the properties: a tick
\* at or after the end with the target in the document, a tick with the
\* target gone, a tick after such a one
Met(iv) ==
    [iv EXCEPT !.sawEnded = @ \/ (now >= iv.end /\ iv.target \in DOMAIN elements),
               !.sawMissing = @ \/ iv.target \notin DOMAIN elements,
               !.invokedAfterMissing = @ \/ iv.sawMissing]

\* a tick of updateEventTimer(startTime, endTime, timerId)
TickUpdateEventTimer(h) ==
    LET iv == Met(intervals[h])
    IN IF iv.lookup \notin DOMAIN elements
       THEN \* cleanupTimer(timerId, timerIds): timerIds is no parameter and
            \* no variable of the module; it is looked up in the global scope
            IF globalTimerIds
            THEN /\ intervals' = ClearInterval([intervals EXCEPT ![h] = iv], h)
                 /\ timerIds' = Spliced(timerIds, h)
                 /\ UNCHANGED elements
            ELSE \* ReferenceError: the callback ends here
                 /\ intervals' = [intervals EXCEPT ![h] = [iv EXCEPT !.threw = TRUE]]
                 /\ UNCHANGED <<elements, timerIds>>
       ELSE LET displayText == getTimerDisplayText(now, DateGetTime(iv.start),
                                                   DateGetTime(iv.end))
                written == [iv EXCEPT !.endedWrites =
                               IF displayText = "Event Ended" THEN @ + 1 ELSE @]
            IN /\ elements' = [elements EXCEPT ![iv.lookup] = displayText]
               /\ IF displayText # "Event Ended"
                  THEN /\ intervals' = [intervals EXCEPT ![h] = written]
                       /\ UNCHANGED timerIds
                  ELSE IF globalTimerIds
                  THEN /\ intervals' = ClearInterval([intervals EXCEPT ![h] = written], h)
                       /\ timerIds' = Spliced(timerIds, h)
                  ELSE /\ intervals' = [intervals EXCEPT ![h] =
                                           [written EXCEPT !.threw = TRUE]]
                       /\ UNCHANGED timerIds

\* a tick of updateTimer, the closure of createCountdownTimer
TickUpdateTimer(h) ==
    LET iv == Met(intervals[h])
        displayText == calculateTimeLeft(now, iv.start, iv.end)
        present == iv.lookup \in DOMAIN elements
        written == [iv EXCEPT !.endedWrites =
                       IF present /\ displayText = "Event Ended" THEN @ + 1 ELSE @]
    IN /\ elements' = IF present THEN [elements EXCEPT ![iv.lookup] = displayText]
                      ELSE elements
       /\ intervals' = IF ~present \/ displayText = "Event Ended"
                       THEN ClearInterval([intervals EXCEPT ![h] = written], h)
                       ELSE [intervals EXCEPT ![h] = written]
       /\ UNCHANGED timerIds

\* the callback of an interval that is set runs
TimerTick(h) ==
    /\ ~unloaded
    /\ h \in DOMAIN intervals
    /\ intervals[h].active
    /\ intervals[h].endedWrites < 2
    /\ IF intervals[h].impl = "updateEventTimer" THEN TickUpdateEventTimer(h)
       ELSE IF intervals[h].impl = "updateTimer" THEN TickUpdateTimer(h)
       ELSE \* the handler 1000 is run as the script "1000"
            UNCHANGED <<elements, intervals, timerIds>>
    /\ UNCHANGED <<timeouts, listeners, globalTimerIds, now, unloaded, nonTimerVars>>

\* a second passes
AdvanceClock ==
    /\ ~unloaded
    /\ now < MaxNow * UPDATE_INTERVAL
    /\ now' = now + UPDATE_INTERVAL
    /\ UNCHANGED <<timerVars, unloaded, nonTimerVars>>

\* the page takes a display target out of the document
RemoveElement(id) ==
    /\ ~unloaded
    /\ id \in DOMAIN elements
    /\ elements' = MapDelete(elements, id)
    /\ UNCHANGED <<intervals, timerIds, timeouts, listeners, globalTimerIds,
                   now, unloaded, nonTimerVars>>

\* cleanupTimer(timerId, timerIds) of Events2.js, on the intervals and the
\* tracking array
cleanupTimer(s, timerId) ==
    [intervals |-> ClearInterval(s.intervals, timerId),
     timerIds  |-> Spliced(s.timerIds, timerId)]

\* the listeners of unload run, each with the handle and the array its
\* closure holds, in the order they were added
RECURSIVE RunListeners(_, _)
RunListeners(s, ls) ==
    IF ls = {} THEN s
    ELSE LET first == CHOOSE h \in ls : \A g \in ls : h <= g
         IN RunListeners(cleanupTimer(s, first), ls \ {first})

\* the page is unloaded: the unload listeners run and the page is gone
Unload ==
    /\ ~unloaded
    /\ unloaded' = TRUE
    /\ LET after == RunListeners([intervals |-> intervals, timerIds |-> timerIds],
                                 listeners)
       IN /\ intervals' = after.intervals
          /\ timerIds' = after.timerIds
    /\ UNCHANGED <<elements, timeouts, listeners, globalTimerIds, now, nonTimerVars>>

NextTimers ==
    \/ \E w \in Windows : \E n \in 1..MaxTimers : InitializeEventTimer(w, n)
    \/ \E t \in timeouts : TimeoutFire(t)
    \/ \E w \in Windows : \E n \in 1..MaxTimers : CreateCountdownTimer(w, n)
    \/ \E h \in DOMAIN intervals : TimerTick(h)
    \/ AdvanceClock
    \/ \E id \in DOMAIN elements : RemoveElement(id)
    \/ Unload

SpecTimers == InitTimers /\ [][NextTimers]_vars

(***************************************************************************)
(* cleanupTimer called twice with one handle                               *)
(***************************************************************************)
\* bound: the handles setInterval has returned
MaxHandles == 3

\* the tracking arrays the pushes and splices of the code leave: handles in
\* the order setInterval returned them, none twice
RECURSIVE Ascending(_, _)
Ascending(hs, from) ==
    IF from > MaxHandles THEN <<>>
    ELSE IF from \in hs THEN <<from>> \o Ascending(hs, from + 1)
    ELSE Ascending(hs, from + 1)
TrackingArrays == { Ascending(hs, 1) : hs \in SUBSET (1..MaxHandles) }

\* some intervals are set and some cleared, some handles are tracked; the
\* handle passed is one of them or one that was never returned
InitCleanup ==
    /\ \E set \in SUBSET (1..MaxHandles) :
          intervals = [h \in 1..MaxHandles |->
                         [NewInterval("updateEventTimer", CHOOSE w \in Windows : TRUE,
                                      TargetId(h), ToString(h))
                            EXCEPT !.active = h \in set]]
    /\ timerIds \in TrackingArrays
    /\ \E h \in 1..(MaxHandles + 1) :
          args = [timerId |-> h, timerIds |-> timerIds, intervals |-> intervals]
    /\ results = EmptyMap
    /\ fpc = "called"
    /\ elements = EmptyMap /\ timeouts = {} /\ listeners = {}
    /\ globalTimerIds = FALSE
    /\ IdleCacheVars /\ IdleKeyVars /\ IdleMergeVars /\ IdleRunVars
    /\ IdleIndexVars /\ IdleClockVars

\* cleanupTimer(timerId, timerIds): nothing in its try block throws on a
\* number and an array
CleanupCall(from, to) ==
    /\ fpc = from
    /\ fpc' = to
    /\ LET after == cleanupTimer([intervals |-> intervals, timerIds |-> timerIds],
                                 args.timerId)
       IN /\ intervals' = after.intervals
          /\ timerIds' = after.timerIds
    /\ results' = [error |-> "none"]
    /\ UNCHANGED <<args, elements, timeouts, listeners, globalTimerIds, now,
                   unloaded, nonTimerFuncVars>>

CleanupOnce == CleanupCall("called", "once")
CleanupTwice == CleanupCall("once", "twice")

NextCleanup == CleanupOnce \/ CleanupTwice

SpecCleanup == InitCleanup /\ [][NextCleanup]_vars

(***************************************************************************)
(* The clock script: initializeClockDisplay, startClockUpdates and         *)
(* updateClocks of Clocks.js and of its longer version (part_000)          *)
(*                                                                         *)
(* clockState holds the variables of the script's closure;  the timeouts   *)
(* and the intervals it sets are in timeouts and intervals.  The functions *)
(* are operators on a record of the three, with the time of the call.      *)
(***************************************************************************)
\* bounds: the invocations of initializeClockDisplay from the event loop,
\* and the depth of its invocations from inside updateClocks
MaxAttempts == 3
MaxNested   == 2

\* the two versions of the script
ClockImpls == {"Clocks.js", "part_000"}
\* the delay of setTimeout(initializeClockDisplay, 2000)
CLOCK_RETRY_DELAY == 2000

\* how an invocation of initializeClockDisplay goes, as the document lets
\* it: building the structure throws, the clock elements are not found
\* (getElementById returns null), or they are found
ClockOutcomes == {"throws", "not found", "found"}
\* the outcomes of an invocation and of those nested in it
ClockOutcomeSeqs == [1..MaxNested -> ClockOutcomes]

\* the times, in milliseconds, at which the script may be evaluated
ClockStarts == {0, 250, 500, 750}

\* setTimeout(callback, delay)
SetTimeout(s, callback, delay) ==
    LET pending == {t.nth : t \in s.timeouts} \cup {0}
        last    == CHOOSE n \in pending : \A m \in pending : m <= n
    IN [s EXCEPT !.timeouts = @ \cup
           {[callback |-> callback, due |-> s.now + delay, nth |-> last + 1]}]

\* 1000 - now.getMilliseconds()
MsToNextSecond(t) == 1000 - (t % 1000)

\* the check that follows the two getElementById calls; it lets every
\* outcome pass
ValidateNothing(c) == TRUE
\* !clockElements.jst || !clockElements.utc, validateClockElements()
validateClockElements(c) == c.clockElements = "found"

\* the catch block of initializeClockDisplay
InitializationCatch(s) ==
    SetTimeout([s EXCEPT !.clock.delays = Append(@, CLOCK_RETRY_DELAY)],
               "initializeClockDisplay", CLOCK_RETRY_DELAY)

\* window.addEventListener('unload', ...) of setupCleanupHandlers
setupCleanupHandlers(s) == [s EXCEPT !.clock.unloadListeners = @ + 1]

RECURSIVE initializeClockDisplay(_, _)
RECURSIVE updateClocks(_, _)

\* startClockUpdates(): the interval in clockUpdateInterval is cleared, the
\* clocks are updated, and the interval is put off to the next full second
startClockUpdates(s, outcomes) ==
    LET cleared == IF s.clock.clockUpdateInterval # 0
                   THEN [s EXCEPT !.intervals =
                            ClearInterval(@, s.clock.clockUpdateInterval)]
                   ELSE s
        updated == updateClocks(cleared, outcomes)
    IN SetTimeout(updated, "startClockUpdates", MsToNextSecond(s.now))

\* initializeClockDisplay(): an async function with no await, so it runs to
\* its end when called.  Past the nesting kept here the call stack is
\* exhausted and the call throws.
initializeClockDisplay(s, outcomes) ==
    LET outcome == IF outcomes = <<>> THEN "throws" ELSE Head(outcomes)
        called  == [s EXCEPT !.clock.attempts = @ + 1]
        cached  == [called EXCEPT !.clock.clockElements =
                       IF outcome = "found" THEN "found" ELSE "null"]
    IN IF outcome = "throws" THEN InitializationCatch(called)
       ELSE IF ~validateClockElements(cached.clock) THEN InitializationCatch(cached)
       ELSE setupCleanupHandlers(startClockUpdates(cached, Tail(outcomes)))

\* updateClocks(): the two elements get the time of the call; writing
\* textContent of null throws; the catch block calls
\* handleClockError (Clocks.js), which sets a timeout, or
\* handleClockUpdateError (part_000), which calls initializeClockDisplay
updateClocks(s, outcomes) ==
    IF s.clock.clockElements = "found" THEN [s EXCEPT !.clock.shown = s.now]
    ELSE IF s.clock.impl = "Clocks.js"
    THEN SetTimeout(s, "initializeClockDisplay", CLOCK_RETRY_DELAY)
    ELSE initializeClockDisplay(s, outcomes)

\* the callback of the timeout of startClockUpdates
StartInterval(s, outcomes) ==
    LET updated == updateClocks(s, outcomes)
        handle  == Cardinality(DOMAIN updated.intervals) + 1
    IN [updated EXCEPT !.intervals = MapSet(@, handle,
                                            [impl |-> "updateClocks", active |-> TRUE]),
                       !.clock.clockUpdateInterval = handle]

\* the script and what it has set, at the time t
ClockAt(t) == [clock |-> clockState, intervals |-> intervals,
               timeouts |-> timeouts, now |-> t]
\* the variables take what a function leaves
ClockBecomes(s) ==
    /\ clockState' = s.clock
    /\ intervals' = s.intervals
    /\ timeouts' = s.timeouts
    /\ now' = s.now

\* the script has been evaluated: nothing is set yet
InitClock ==
    /\ \E impl \in ClockImpls :
          clockState = [impl |-> impl, clockElements |-> "null",
                        clockUpdateInterval |-> 0, attempts |-> 0,
                        delays |-> <<>>, unloadListeners |-> 0, shown |-> -1]
    /\ now \in ClockStarts
    /\ intervals = EmptyMap /\ timeouts = {}
    /\ elements = EmptyMap /\ timerIds = <<>> /\ listeners = {}
    /\ globalTimerIds = FALSE
    /\ enabled = TRUE /\ ticks = 0 /\ dataCache = EmptyMap
    /\ calls = <<>> /\ started = 0 /\ netFetches = 0 /\ unloaded = FALSE
    /\ IdleKeyVars /\ IdleMergeVars /\ IdleRunVars /\ IdleIndexVars /\ IdleFuncVars

\* the document is ready: initializeClockDisplay is called
ClockLoad(outcomes) ==
    /\ ~unloaded
    /\ clockState.attempts = 0
    /\ ClockBecomes(initializeClockDisplay(ClockAt(now), outcomes))
    /\ UNCHANGED <<unloaded, nonClockVars>>

\* the timeout that is due first fires
ClockTimeoutFire(t, outcomes) ==
    /\ ~unloaded
    /\ t \in timeouts
    /\ \A u \in timeouts : t.due < u.due \/ (t.due = u.due /\ t.nth <= u.nth)
    /\ LET at == IF now < t.due THEN t.due ELSE now
           s  == [ClockAt(at) EXCEPT !.timeouts = @ \ {t}]
       IN IF t.callback = "initializeClockDisplay"
          THEN /\ clockState.attempts < MaxAttempts
               /\ ClockBecomes(initializeClockDisplay(s, outcomes))
          ELSE ClockBecomes(StartInterval(s, outcomes))
    /\ UNCHANGED <<unloaded, nonClockVars>>

\* an interval that is set ticks
ClockTick(h, outcomes) ==
    /\ ~unloaded
    /\ h \in DOMAIN intervals
    /\ intervals[h].active
    /\ Cardinality(timeouts) <= MaxAttempts
    /\ clockState.attempts < MaxAttempts
    /\ ClockBecomes(updateClocks(ClockAt(now), outcomes))
    /\ UNCHANGED <<unloaded, nonClockVars>>

\* the page is unloaded: each listener of setupCleanupHandlers clears the
\* interval in clockUpdateInterval
ClockUnload ==
    /\ ~unloaded
    /\ unloaded' = TRUE
    /\ IF clockState.unloadListeners > 0 /\ clockState.clockUpdateInterval # 0
       THEN /\ intervals' = ClearInterval(intervals, clockState.clockUpdateInterval)
            /\ clockState' = [clockState EXCEPT !.clockUpdateInterval = 0]
       ELSE UNCHANGED <<intervals, clockState>>
    /\ UNCHANGED <<timeouts, now, nonClockVars>>

NextClock ==
    \/ \E outcomes \in ClockOutcomeSeqs : ClockLoad(outcomes)
    \/ \E t \in timeouts : \E outcomes \in ClockOutcomeSeqs : ClockTimeoutFire(t, outcomes)
    \/ \E h \in DOMAIN intervals : \E outcomes \in ClockOutcomeSeqs : ClockTick(h, outcomes)
    \/ ClockUnload

SpecClock == InitClock /\ [][NextClock]_vars

(***************************************************************************)
(* Properties of the countdown timers                                      *)
(***************************************************************************)
\* the intervals of the countdown callbacks
Countdowns == { h \in DOMAIN intervals : intervals[h].impl # "handler 1000" }
\* the handles timerIds holds
Tracked == { timerIds[k] : k \in 1..Len(timerIds) }

\* C18: once a tick of a countdown has run at or after the end of its
\* window with its display target in the document, the timer has written
\* 'Event Ended' exactly once and its interval is cleared (so it ticks and
\* writes no more).
C18_EndedOnceThenCancelled ==
    \A h \in Countdowns :
        intervals[h].sawEnded =>
            /\ intervals[h].endedWrites = 1
            /\ ~intervals[h].active

\* C18 for the timers of createCountdownTimer alone
C18_EndedOnceThenCancelledUtils ==
    \A h \in Countdowns :
        (intervals[h].impl = "updateTimer" /\ intervals[h].sawEnded) =>
            /\ intervals[h].endedWrites = 1
            /\ ~intervals[h].active
            /\ intervals[h].target \in DOMAIN elements =>
                  elements[intervals[h].target] = "Event Ended"

\* C19: once a tick of a countdown has run with its display target gone
\* from the document, the interval is cleared, its handle is no longer in
\* timerIds, and no tick has run after that one.
C19_MissingTargetCleansUp ==
    \A h \in Countdowns :
        intervals[h].sawMissing =>
            /\ ~intervals[h].active
            /\ h \notin Tracked
            /\ ~intervals[h].invokedAfterMissing

\* C19 without the tracking array, for the timers of createCountdownTimer
\* alone: the interval is cleared and no tick runs after that one
C19_MissingTargetCancelsUtils ==
    \A h \in Countdowns :
        (intervals[h].impl = "updateTimer" /\ intervals[h].sawMissing) =>
            /\ ~intervals[h].active
            /\ ~intervals[h].invokedAfterMissing

\* C21: once the page is unloaded, no countdown interval is still set and
\* timerIds is empty.
C21_UnloadCancelsAll ==
    unloaded =>
        /\ \A h \in Countdowns : ~intervals[h].active
        /\ timerIds = <<>>

\* C21 for the timers of initializeEventTimer alone: once the page is
\* unloaded, none of their intervals is still set or tracked
C21_UnloadCancelsEvents2 ==
    unloaded =>
        \A h \in Countdowns :
            intervals[h].impl = "updateEventTimer" =>
                ~intervals[h].active /\ h \notin Tracked

\* C22: the first cleanupTimer(handle, timerIds) clears the interval of
\* that handle and takes that handle out of timerIds, leaving every other
\* interval and every other tracked handle as it was; a second call with the
\* same handle raises no error and changes neither the intervals nor
\* timerIds.
C22_CleanupIdempotent ==
    [][(fpc' = "once" =>
            /\ timerIds' = SelectSeq(timerIds, LAMBDA h : h # args.timerId)
            /\ DOMAIN intervals' = DOMAIN intervals
            /\ \A h \in DOMAIN intervals :
                  intervals'[h] = IF h = args.timerId
                                  THEN [intervals[h] EXCEPT !.active = FALSE]
                                  ELSE intervals[h]
            /\ results'.error = "none")
       /\ (fpc' = "twice" =>
            /\ timerIds' = timerIds
            /\ intervals' = intervals
            /\ results'.error = "none")]_vars

\* the second call has returned, for a handle that was tracked between two
\* others and whose interval was set
C22_Witness ==
    /\ fpc = "twice"
    /\ args.timerIds = <<1, 2, 3>>
    /\ args.timerId = 2
    /\ args.intervals[2].active
    /\ timerIds = <<1, 3>>
    /\ ~intervals[2].active

\* C23: a countdown whose tick has thrown is cancelled: its interval is no
\* longer set (and so it ticks no more).
C23_ThrowingTimerCancelled ==
    \A h \in Countdowns : intervals[h].threw => ~intervals[h].active

\* C23, the other timers: the tick that throws leaves every other interval
\* as it was
C23_ThrowLeavesOthers ==
    [][\A h \in DOMAIN intervals :
          (~intervals[h].threw /\ intervals'[h].threw) =>
              \A g \in DOMAIN intervals \ {h} : intervals'[g] = intervals[g]]_vars

\* C26: no display target has two countdown intervals set at once.
C26_OneIntervalPerTarget ==
    \A h, g \in Countdowns :
        (/\ intervals[h].active /\ intervals[g].active
         /\ intervals[h].target = intervals[g].target) => h = g

\* the intervals createCountdownTimer has set: the one of setInterval(1000)
\* and the one of updateTimer
OfCreateCountdownTimer ==
    { h \in DOMAIN intervals : intervals[h].impl \in {"handler 1000", "updateTimer"} }

\* C27: every interval createCountdownTimer has set is cleared or has its
\* handle in timerIds, and every handle in timerIds is the handle of an
\* interval that is still set.
C27_NoLeakedInterval ==
    /\ \A h \in OfCreateCountdownTimer : intervals[h].active => h \in Tracked
    /\ \A h \in Tracked : h \in DOMAIN intervals /\ intervals[h].active

\* C27, the part that holds: the interval of updateTimer is tracked from the
\* moment createCountdownTimer returns
C27_UpdateTimerTracked ==
    \A h \in DOMAIN intervals : intervals[h].impl = "updateTimer" => h \in Tracked

\* the clock intervals that are set
ClockIntervals == { h \in DOMAIN intervals : intervals[h].active }

\* C24: at most one clock interval is set at any time, and an interval that
\* is set is the one clockUpdateInterval holds (no earlier one is left
\* running).
C24_OneClockInterval ==
    /\ Cardinality(ClockIntervals) <= 1
    /\ \A h \in ClockIntervals : h = clockState.clockUpdateInterval

\* initialization has failed twice, a retry has gone through and the
\* interval is set
C24_Witness ==
    /\ clockState.attempts = 3
    /\ Len(clockState.delays) = 2
    /\ ClockIntervals = {clockState.clockUpdateInterval}

\* C25: the delay before each recovery attempt is longer than the delay
\* before the one that preceded it.
C25_BackoffGrows ==
    \A k \in 1..(Len(clockState.delays) - 1) :
        clockState.delays[k + 1] > clockState.delays[k]

\* the birthday containers that are children of DVDoomParent
BirthdayContainers == { c \in DOMAIN containers : containers[c].isConnected }

\* C30: DVDoomParent holds exactly one birthday container, whatever the
\* number of failed runs and retries.
C30_OneBirthdayContainer == Cardinality(BirthdayContainers) = 1

\* the loads of a key that have succeeded: the calls that fetched, parsed
\* and returned
SuccessfulLoads(key) ==
    { c \in 1..started :
        /\ CacheKey(calls[c].req.url, calls[c].req.options) = key
        /\ calls[c].st = "returned"
        /\ calls[c].resp # NoResponse }

\* C29: the payload cached under a key is the payload of the most recently
\* started load of that key that has succeeded.
C29_CacheNeverGoesBack ==
    \A key \in DOMAIN dataCache :
        \A c \in SuccessfulLoads(key) :
            (\A d \in SuccessfulLoads(key) : d <= c) =>
                dataCache[key].data = calls[c].result

\* C28: an event is skipped by the expiry filter exactly when the label
\* computed at the same instant from the formatted start and end is
\* 'Event Ended'.
C28_FilterAgreesWithLabel ==
    fpc = "returned" =>
        (results.skipped <=> results.label = "Event Ended")

\* C28, the half that holds: an event the filter skips would be labelled
\* 'Event Ended'
C28_SkippedWouldShowEnded ==
    fpc = "returned" =>
        (results.skipped => results.label = "Event Ended")

\* C28 for the engines that read the text of formatDate as a local time
C28_FilterAgreesWhenParsed ==
    (fpc = "returned" /\ args.parses) =>
        (results.skipped <=> results.label = "Event Ended")

====
